---- MODULE Spec2Model ----
(***************************************************************************)
(* BaseService (ngx-todo-app): the request facade over Angular's Http and  *)
(* the flattening of a query-parameter bag into a URLSearchParams.         *)
(*                                                                         *)
(* JavaScript values are records of one shape, so that any two of them can *)
(* be compared: t is the runtime type tag, n a number payload, s a string  *)
(* payload (a sequence of one-character strings), a the elements of an     *)
(* array, o the own enumerable properties of an object in for-in order.    *)
(***************************************************************************)
EXTENDS Integers, Sequences, FiniteSets, TLC

(* ---------------------------------------------------------------- bounds *)
\* Most properties (own and nested together) a query-parameter bag holds.
MaxNodes == 3
\* Most elements an array value holds.
MaxArr == 2

(* ------------------------------------------------------------ JS values *)
Val(t, n, s, a, o) == [t |-> t, n |-> n, s |-> s, a |-> a, o |-> o]
Num(n) == Val("num", n, <<>>, <<>>, <<>>)
Str(s) == Val("str", 0, s, <<>>, <<>>)
\* A Date: s is its calendar day as toDateString prints it, n its time of day.
DateVal(n, s) == Val("date", n, s, <<>>, <<>>)
Arr(a) == Val("arr", 0, <<>>, a, <<>>)
Obj(o) == Val("obj", 0, <<>>, <<>>, o)
Null == Val("null", 0, <<>>, <<>>, <<>>)
Undefined == Val("undefined", 0, <<>>, <<>>, <<>>)
\* A property whose value is an object that (transitively) encloses it.
Cycle == Val("cycle", 0, <<>>, <<>>, <<>>)

Prop(k, v) == [key |-> k, val |-> v]

Keys == {"k", "x"}
Scalars == {Num(1), Num(2), Str(<<"a", " ", "b">>)}
ADate == DateVal(615, <<"M", "o", "n", " ", "N", "o", "v", " ", "0", "2", " ", "2", "0", "2", "6">>)

\* The arrays: the first elements of two lists of scalars, in each of which the
\* place of an element tells it from its neighbours.
ArrElem(i) ==
    CASE i = 1 -> Str(<<"a", " ", "b">>)
      [] i = 2 -> Num(1)
      [] i = 3 -> Num(2)
      [] OTHER -> Num(1)
ArrElemOther(i) ==
    CASE i = 1 -> Num(2)
      [] i = 2 -> Num(1)
      [] i = 3 -> Str(<<"a", " ", "b">>)
      [] OTHER -> Num(2)
Arrays ==
    {Arr([i \in 1..n |-> ArrElem(i)]) : n \in 0..MaxArr}
    \cup {Arr([i \in 1..n |-> ArrElemOther(i)]) : n \in 0..MaxArr}
Leaves == Scalars \cup {ADate, Null, Cycle} \cup Arrays

KeysOf(props) == {props[i].key : i \in 1..Len(props)}

\* The values holding exactly m properties beneath them, given the property lists
\* levels[i + 1] of exactly i properties.
ValN(levels, m) == IF m = 0 THEN Leaves \cup {Obj(<<>>)} ELSE {Obj(o) : o \in levels[m + 1]}

\* The property lists of exactly n properties, nested ones counted: a shorter list
\* and one more property, under a key the list does not have yet.
ObjN(levels, n) ==
    UNION { { Append(ok[1], Prop(ok[2], v)) :
                ok \in {p \in levels[i + 1] \X Keys : p[2] \notin KeysOf(p[1])},
                v \in ValN(levels, n - 1 - i) }
            : i \in 0..(n - 1) }

\* <<the lists of 0 properties, the lists of 1 property, ..., the lists of n>>
RECURSIVE ObjLevels(_)
ObjLevels(n) ==
    IF n = 0 THEN << {<<>>} >>
    ELSE CHOOSE next \in {Append(levels, ObjN(levels, n)) : levels \in {ObjLevels(n - 1)}} : TRUE

(* ------------------------------------------- URLSearchParams (@angular/http) *)
\* paramsMap: a Map from key to the list of its values, in order of first insertion.
Entry(k, vals) == [key |-> k, vals |-> vals]

IndexOf(map, k) ==
    IF \E i \in 1..Len(map) : map[i].key = k
    THEN CHOOSE i \in 1..Len(map) : map[i].key = k
    ELSE 0

\* URLSearchParams.getAll(param), the empty list when the key is absent.
getAll(map, k) == IF IndexOf(map, k) = 0 THEN <<>> ELSE map[IndexOf(map, k)].vals

\* A set that pushes without emptying the list.
setAsAppend(map, k, v) ==
    IF IndexOf(map, k) = 0 THEN Append(map, Entry(k, <<v>>))
    ELSE [map EXCEPT ![IndexOf(map, k)].vals = Append(@, v)]
\* URLSearchParams.set(param, val): the key's list is emptied, then val pushed. A
\* reassigned key keeps its place in the Map. The values set here are strings and
\* numbers, never null or undefined.
set(map, k, v) ==
    IF IndexOf(map, k) = 0 THEN Append(map, Entry(k, <<v>>))
    ELSE [map EXCEPT ![IndexOf(map, k)].vals = <<v>>]

\* An append that replaces the list.
appendReplaces(map, k, v) ==
    IF IndexOf(map, k) = 0 THEN Append(map, Entry(k, <<v>>))
    ELSE [map EXCEPT ![IndexOf(map, k)].vals = <<v>>]
\* URLSearchParams.append(param, val): val pushed onto the key's list.
append(map, k, v) ==
    IF IndexOf(map, k) = 0 THEN Append(map, Entry(k, <<v>>))
    ELSE [map EXCEPT ![IndexOf(map, k)].vals = Append(@, v)]

\* parameter.forEach(value => urlSearchParams.append(property, value))
RECURSIVE forEachAppend(_, _, _, _)
forEachAppend(map, k, a, i) ==
    IF i > Len(a) THEN map ELSE forEachAppend(append(map, k, a[i]), k, a, i + 1)

\* URLSearchParams.appendAll(searchParams): every list of the other Map is pushed,
\* element by element, onto the list of the same key here.
RECURSIVE appendAllFrom(_, _, _)
appendAllFrom(map, other, i) ==
    IF i > Len(other) THEN map
    ELSE appendAllFrom(forEachAppend(map, other[i].key, other[i].vals, 1), other, i + 1)
\* A merge that namespaces the merged keys under the parent key x.
appendAllNamespaced(map, other) ==
    appendAllFrom(map, [i \in 1..Len(other) |-> Entry("x." \o other[i].key, other[i].vals)], 1)
appendAll(map, other) == appendAllFrom(map, other, 1)

(* ------------------------------------------------------ string conversions *)
Digit(d) == CASE d = 0 -> "0" [] d = 1 -> "1" [] d = 2 -> "2" [] d = 3 -> "3" [] d = 4 -> "4"
              [] d = 5 -> "5" [] d = 6 -> "6" [] d = 7 -> "7" [] d = 8 -> "8" [] d = 9 -> "9"
RECURSIVE Digits(_)
Digits(n) == IF n < 10 THEN <<Digit(n)>> ELSE Append(Digits(n \div 10), Digit(n % 10))

\* JavaScript's ToString of a value stored in the Map: what encodeURIComponent is
\* handed a number or a string.
ToStr(v) == IF v.t = "num" THEN Digits(v.n) ELSE v.s

\* Date.prototype.toDateString(): the calendar day, the time of day dropped.
toDateString(d) == Str(d.s)

\* QueryEncoder.encodeValue = standardEncoding: encodeURIComponent, with
\* @ : $ , ; + = ? / restored.
EncodeChar(c) ==
    CASE c = " " -> "%20"
      [] c = "&" -> "%26"
      [] c = "#" -> "%23"
      [] c = "%" -> "%25"
      [] OTHER -> c
RECURSIVE standardEncoding(_)
standardEncoding(s) ==
    IF s = <<>> THEN "" ELSE EncodeChar(Head(s)) \o standardEncoding(Tail(s))

\* The pairs URLSearchParams.toString() writes, in order: one per value of every key.
RECURSIVE QueryPairs(_)
QueryPairs(map) ==
    IF map = <<>> THEN <<>>
    ELSE [i \in 1..Len(map[1].vals) |-> <<map[1].key, standardEncoding(ToStr(map[1].vals[i]))>>]
         \o QueryPairs(Tail(map))

RECURSIVE Join(_)
Join(pairs) ==
    IF pairs = <<>> THEN ""
    ELSE IF Len(pairs) = 1 THEN pairs[1][1] \o "=" \o pairs[1][2]
    ELSE pairs[1][1] \o "=" \o pairs[1][2] \o "&" \o Join(Tail(pairs))
toString(map) == Join(QueryPairs(map))

(* ------------------------------------------------- transformParameters *)
\* What a call of transformParameters completes with: the URLSearchParams it
\* returns, or thrown (RangeError: the call stack is exhausted walking an object
\* that encloses itself).
Returned(map) == [thrown |-> FALSE, map |-> map]
Thrown == [thrown |-> TRUE, map |-> <<>>]

RECURSIVE transformParameters(_)
RECURSIVE ForIn(_, _, _)

\* The body of the for-in loop for one property.
Visit(usp, property, parameter) ==
    CASE parameter.t = "date" ->
           Returned(set(usp.map, property, toDateString(parameter)))
      [] parameter.t \in {"obj", "null", "cycle"} ->
           LET inner == transformParameters(parameter)
           IN  IF inner.thrown THEN Thrown ELSE Returned(appendAll(usp.map, inner.map))
      [] parameter.t = "arr" ->
           Returned(forEachAppend(usp.map, property, parameter.a, 1))
      [] OTHER ->
           Returned(set(usp.map, property, parameter))

\* A loop that stops one property early.
ForInStopsEarly(props, i, usp) ==
    IF usp.thrown \/ i >= Len(props) THEN usp
    ELSE ForIn(props, i + 1, Visit(usp, props[i].key, props[i].val))
ForIn(props, i, usp) ==
    IF usp.thrown \/ i > Len(props) THEN usp
    ELSE ForIn(props, i + 1, Visit(usp, props[i].key, props[i].val))

\* for-in over null or undefined visits nothing; an object that encloses itself is
\* walked until the stack is exhausted.
transformParameters(obj) ==
    CASE obj.t = "cycle" -> Thrown
      [] obj.t = "obj" -> ForIn(obj.o, 1, Returned(<<>>))
      [] OTHER -> Returned(<<>>)

(* ------------------------------------------- JSendReply and the transport *)
\* A decoded JSON value, or an Error object: t its kind, f the fields of an object
\* (each value in its JSON notation).
Field(name, val) == [name |-> name, val |-> val]
JsObject(f) == [t |-> "object", f |-> f]
JsNull == [t |-> "null", f |-> {}]
JsArray == [t |-> "array", f |-> {}]
EmptyObject == JsObject({})
SyntaxError == [t |-> "SyntaxError", f |-> {}]
TypeError == [t |-> "TypeError", f |-> {}]
\* The ProgressEvent an XMLHttpRequest hands its error listener.
ErrorEvent == [t |-> "event", f |-> {}]

\* interface JSendReply<T>
JSendReply(data, message, status, statusCode) ==
    JsObject({Field("data", data), Field("message", message),
              Field("status", status), Field("statusCode", statusCode)})
IsJSendReply(v) ==
    /\ v.t = "object"
    /\ {x.name : x \in v.f} = {"data", "message", "status", "statusCode"}
    /\ Cardinality(v.f) = 4

EnvOk == JSendReply("{\"id\":1}", "\"ok\"", "\"success\"", "200")
EnvNotFound == JSendReply("null", "\"not found\"", "\"error\"", "404")
Envelopes == {EnvOk, EnvNotFound}

\* The body the server writes for an envelope.
EnvOkText == "{\"data\":{\"id\":1},\"message\":\"ok\",\"status\":\"success\",\"statusCode\":200}"
EnvNotFoundText == "{\"data\":null,\"message\":\"not found\",\"status\":\"error\",\"statusCode\":404}"
EnvelopeText(e) == IF e = EnvOk THEN EnvOkText ELSE EnvNotFoundText

\* Bodies that are JSON but no envelope, and bodies that are no JSON at all.
OtherJsonTexts == {"null", "{}", "[1]"}
UnparseableTexts == {"", "<html>"}
BodyTexts == {EnvelopeText(e) : e \in Envelopes} \cup OtherJsonTexts \cup UnparseableTexts

\* What a completed evaluation gives: a value, or a thrown one.
Return(v) == [threw |-> FALSE, val |-> v]
Throw(v) == [threw |-> TRUE, val |-> v]

\* JSON.parse on the bodies above.
JSONparse(text) ==
    CASE text = EnvOkText -> Return(EnvOk)
      [] text = EnvNotFoundText -> Return(EnvNotFound)
      [] text = "null" -> Return(JsNull)
      [] text = "{}" -> Return(EmptyObject)
      [] text = "[1]" -> Return(JsArray)
      [] OTHER -> Throw(SyntaxError)

\* A Response of @angular/http: ok is status in 200..299; its body is a string
\* (kind "text"), null (kind "null": nothing was sent, as with 204) or, when the
\* connection failed, the error event itself (kind "event").
Response(ok, status, kind, text) == [ok |-> ok, status |-> status, kind |-> kind, text |-> text]
NoResponse == Response(FALSE, 0, "none", "")

SuccessResponses ==
    {Response(TRUE, 200, "text", t) : t \in BodyTexts} \cup {Response(TRUE, 204, "null", "")}
FailureResponses ==
    {Response(FALSE, st, "text", t) : st \in {404, 500}, t \in BodyTexts}
    \cup {Response(FALSE, 500, "null", "")}
\* The transport failed: no connection, a timeout.
TransportFailures == {Response(FALSE, 0, "event", "")}
Responses == SuccessResponses \cup FailureResponses \cup TransportFailures

\* Body.json(): JSON.parse of a string body, any other body as it is.
json(res) ==
    CASE res.kind = "text" -> JSONparse(res.text)
      [] res.kind = "null" -> Return(JsNull)
      [] OTHER -> Return(ErrorEvent)

Truthy(v) == v.t \notin {"null"}

\* What travels down the error channel of the observable: the failed Response, or
\* a value thrown by an operator.
ErrResponse(res) == [isResponse |-> TRUE, res |-> res, val |-> JsNull]
ErrValue(v) == [isResponse |-> FALSE, res |-> NoResponse, val |-> v]

\* An extraction that unwraps the envelope and hands on its data alone.
extractDataUnwraps(res) ==
    LET parsed == json(res)
    IN  IF parsed.threw THEN parsed
        ELSE Return(JsObject({x \in parsed.val.f : x.name = "data"}))

\* extractData(res): res.json() || {}
extractData(res) ==
    LET parsed == json(res)
    IN  IF parsed.threw THEN parsed
        ELSE IF Truthy(parsed.val) THEN Return(parsed.val) ELSE Return(EmptyObject)

\* errorHandler(err): Observable.throw(err.json()). Handed anything but a Response,
\* err.json is no function and the call throws a TypeError.
errorHandler(err) ==
    IF ~err.isResponse THEN Throw(TypeError)
    ELSE LET body == json(err.res)
         IN  IF body.threw THEN body ELSE Return(body.val)

\* What the subscriber of source.map(extractData).catch(errorHandler) is handed
\* for one response of the transport: the values of next, the values of error,
\* whether complete was called, and whether the catch selector ran.
Outcome(emitted, failed, completed, caught) ==
    [emitted |-> emitted, failed |-> failed, completed |-> completed, caught |-> caught]

\* A handler that recovers: the parsed body is handed on as a value.
CatchRecovers(err) == Outcome(<<errorHandler(err).val>>, <<>>, TRUE, TRUE)

\* .catch(this.errorHandler): the selector's observable (Observable.throw(body))
\* replaces the failed one; a selector that throws fails the result with what it threw.
Catch(err) == Outcome(<<>>, <<errorHandler(err).val>>, FALSE, TRUE)

\* .map(res => this.extractData(res)): a projection that throws fails the result.
Map(res) ==
    LET projected == extractData(res)
    IN  IF projected.threw THEN Catch(ErrValue(projected.val))
        ELSE Outcome(<<projected.val>>, <<>>, TRUE, FALSE)

\* The XHR connection: a 2xx response is nexted and the stream completed, any other
\* response and any transport failure is an error.
Pipeline(res) == IF res.ok THEN Map(res) ELSE Catch(ErrResponse(res))

(* ------------------------------------------------------------------ state *)
VARIABLES
    prefix,     \* the constructor's prefix argument
    url,        \* this.url
    calls,      \* operations called so far
    phase,      \* "idle", "returned" (an observable was returned), "threw" (the
                \* call threw), "subscribed" (request in flight), "done"
    call,       \* the operation last called and its arguments
    pending,    \* the request the returned observable issues once subscribed
    requests,   \* the requests handed to the Http transport for this call
    response,   \* what the transport delivered
    emitted,    \* the values the subscriber's next was called with
    failed,     \* the values the subscriber's error was called with
    completed,  \* the subscriber's complete was called
    caught,     \* errorHandler ran
    obj,        \* transformParameters alone: its argument
    result,     \* transformParameters alone: what it completed with
    fpc         \* transformParameters alone: "input" before the call, "done" after

hvars == <<prefix, url, calls, phase, call, pending, requests, response,
           emitted, failed, completed, caught>>
fvars == <<obj, result, fpc>>
vars == <<hvars, fvars>>

\* Calls made on one service in a run.
MaxCalls == 2

Prefixes == {"", "auth"}
\* An optional argument: given with a value, or left out.
Arg(v) == [given |-> TRUE, v |-> v]
Omitted == [given |-> FALSE, v |-> ""]
DefaultTo(arg, d) == IF arg.given THEN arg.v ELSE d

Endpoints == {Omitted, Arg("todos"), Arg("todos/1")}
ExternalUrls == {"http://api.example.org/v1", "https://other.example.org"}
Payloads == {Omitted, Arg("null"), Arg("{\"title\":\"t\"}")}
\* The bags the operations are called with.
QueryBags ==
    { Undefined, Null, Obj(<<>>),
      Obj(<<Prop("k", Num(1))>>),
      Obj(<<Prop("k", Str(<<"a", " ", "b">>)), Prop("x", ADate)>>),
      Obj(<<Prop("k", Arr(<<Num(1), Str(<<"a", " ", "b">>)>>))>>),
      Obj(<<Prop("x", Obj(<<Prop("k", Num(2))>>)), Prop("k", Num(1))>>),
      Obj(<<Prop("x", Cycle)>>),
      Obj(<<Prop("k", Num(1)), Prop("x", Obj(<<Prop("x", Cycle)>>))>>) }

NoCall == [op |-> "none", endpoint |-> Omitted, target |-> "", queryParams |-> Undefined,
           data |-> Omitted]
NoRequest == [method |-> "none", url |-> "", search |-> "", body |-> ""]
Request(method, u, search, body) ==
    [method |-> method, url |-> u, search |-> search, body |-> body]

\* constructor(_http, prefix): this.url = ''
UrlAtConstruction == ""

InitService ==
    /\ prefix \in Prefixes
    /\ url = UrlAtConstruction
    /\ calls = 0
    /\ phase = "idle"
    /\ call = NoCall
    /\ pending = NoRequest
    /\ requests = <<>>
    /\ response = NoResponse
    /\ emitted = <<>>
    /\ failed = <<>>
    /\ completed = FALSE
    /\ caught = FALSE

Init ==
    /\ InitService
    /\ obj = Undefined
    /\ result = Returned(<<>>)
    /\ fpc = "idle"

CanCall == phase \in {"idle", "threw", "done"} /\ calls < MaxCalls

\* An eager operation: the request goes out as the operation is called.
ReturnObservableEager(c, req) ==
    /\ calls' = calls + 1
    /\ call' = c
    /\ phase' = "returned"
    /\ pending' = req
    /\ requests' = <<req>>
    /\ response' = NoResponse
    /\ emitted' = <<>>
    /\ failed' = <<>>
    /\ completed' = FALSE
    /\ caught' = FALSE
    /\ UNCHANGED <<prefix, url, fvars>>

\* this._http.<method>(requestUrl, ...).map(...).catch(...): the observable is built
\* and returned; nothing is handed to the transport yet.
ReturnObservable(c, req) ==
    /\ calls' = calls + 1
    /\ call' = c
    /\ phase' = "returned"
    /\ pending' = req
    /\ requests' = <<>>
    /\ response' = NoResponse
    /\ emitted' = <<>>
    /\ failed' = <<>>
    /\ completed' = FALSE
    /\ caught' = FALSE
    /\ UNCHANGED <<prefix, url, fvars>>

\* transformParameters threw: the exception leaves the operation, no observable is
\* returned.
ThrowAtCall(c) ==
    /\ calls' = calls + 1
    /\ call' = c
    /\ phase' = "threw"
    /\ pending' = NoRequest
    /\ requests' = <<>>
    /\ response' = NoResponse
    /\ emitted' = <<>>
    /\ failed' = <<>>
    /\ completed' = FALSE
    /\ caught' = FALSE
    /\ UNCHANGED <<prefix, url, fvars>>

\* A URL composed without the separator.
RequestUrlNoSlash(endpoint) == url \o endpoint

\* `${this.url}/${endpoint}`
RequestUrl(endpoint) == url \o "/" \o endpoint

get(endpoint, queryParams) ==
    /\ CanCall
    /\ LET c == [op |-> "get", endpoint |-> endpoint, target |-> "",
                 queryParams |-> queryParams, data |-> Omitted]
           requestUrl == RequestUrl(DefaultTo(endpoint, ""))
           search == transformParameters(queryParams)
       IN  IF search.thrown THEN ThrowAtCall(c)
           ELSE ReturnObservable(c, Request("GET", requestUrl, toString(search.map), ""))

getExternal(u, queryParams) ==
    /\ CanCall
    /\ LET c == [op |-> "getExternal", endpoint |-> Omitted, target |-> u,
                 queryParams |-> queryParams, data |-> Omitted]
           search == transformParameters(queryParams)
       IN  IF search.thrown THEN ThrowAtCall(c)
           ELSE ReturnObservable(c, Request("GET", u, toString(search.map), ""))

post(endpoint, data) ==
    /\ CanCall
    /\ LET c == [op |-> "post", endpoint |-> endpoint, target |-> "",
                 queryParams |-> Undefined, data |-> data]
       IN  ReturnObservable(c, Request("POST", RequestUrl(DefaultTo(endpoint, "")), "",
                                       DefaultTo(data, "null")))

put(endpoint, data) ==
    /\ CanCall
    /\ LET c == [op |-> "put", endpoint |-> endpoint, target |-> "",
                 queryParams |-> Undefined, data |-> data]
       IN  ReturnObservable(c, Request("PUT", RequestUrl(DefaultTo(endpoint, "")), "",
                                       DefaultTo(data, "null")))

delete(endpoint, queryParams) ==
    /\ CanCall
    /\ LET c == [op |-> "delete", endpoint |-> endpoint, target |-> "",
                 queryParams |-> queryParams, data |-> Omitted]
           search == transformParameters(queryParams)
       IN  IF search.thrown THEN ThrowAtCall(c)
           ELSE ReturnObservable(c, Request("DELETE", RequestUrl(DefaultTo(endpoint, "")),
                                            toString(search.map), ""))

\* The caller subscribes to the returned observable: the request goes out.
Subscribe ==
    /\ phase = "returned"
    /\ phase' = "subscribed"
    /\ requests' = Append(requests, pending)
    /\ UNCHANGED <<prefix, url, calls, call, pending, response, emitted, failed,
                   completed, caught, fvars>>

\* The transport delivers its one response, or fails.
Deliver(res) ==
    /\ phase = "subscribed"
    /\ phase' = "done"
    /\ response' = res
    /\ LET out == Pipeline(res)
       IN  /\ emitted' = out.emitted
           /\ failed' = out.failed
           /\ completed' = out.completed
           /\ caught' = out.caught
    /\ UNCHANGED <<prefix, url, calls, call, pending, requests, fvars>>

Next ==
    \/ \E e \in Endpoints, q \in QueryBags : get(e, q)
    \/ \E u \in ExternalUrls, q \in QueryBags : getExternal(u, q)
    \/ \E e \in Endpoints, d \in Payloads : post(e, d)
    \/ \E e \in Endpoints, d \in Payloads : put(e, d)
    \/ \E e \in Endpoints, q \in QueryBags : delete(e, q)
    \/ Subscribe
    \/ \E res \in Responses : Deliver(res)

Spec == Init /\ [][Next]_vars

(* ------------------------------------------- transformParameters on its own *)
\* The argument: null, undefined, or an object of at most MaxNodes properties.
InitFlatten ==
    /\ InitService
    /\ prefix = ""
    /\ \/ obj \in {Null, Undefined}
       \/ \E levels \in {ObjLevels(MaxNodes)} :
              \E m \in 0..MaxNodes : \E o \in levels[m + 1] : obj = Obj(o)
    /\ result = Returned(<<>>)
    /\ fpc = "input"

Transform ==
    /\ fpc = "input"
    /\ result' = transformParameters(obj)
    /\ fpc' = "done"
    /\ UNCHANGED <<obj, hvars>>

NextFlatten == Transform
SpecFlatten == InitFlatten /\ [][NextFlatten]_vars

(* ============================================================== claims *)
\* The states in which the transport has answered the subscribed request.
Done == phase = "done"
EmptyOrUnparseable(res) ==
    res.kind = "null" \/ (res.kind = "text" /\ res.text \in UnparseableTexts)

\* C1 (as claimed): a 2xx response whose body is empty or is not parseable as JSON
\* yields one success value, the empty object, and no failure.
C1_LenientSuccess ==
    (Done /\ response.ok /\ EmptyOrUnparseable(response))
        => (emitted = <<EmptyObject>> /\ failed = <<>> /\ completed)

\* C2 (as claimed): however the request fails, the result fails with an error
\* payload that is an envelope, and no other kind of error value reaches the caller.
C2_FailureCarriesEnvelope ==
    /\ (Done /\ ~response.ok) => (emitted = <<>> /\ Len(failed) = 1)
    /\ \A i \in 1..Len(failed) : IsJSendReply(failed[i])

\* C3: a non-2xx response whose body is the well-formed envelope E fails the result
\* with an error payload equal to E and hands the caller no success value.
C3_ErrorEnvelopePropagated ==
    \A e \in Envelopes :
        (Done /\ ~response.ok /\ response.kind = "text" /\ response.text = EnvelopeText(e))
            => (failed = <<e>> /\ emitted = <<>> /\ ~completed)
C3_Witness ==
    /\ Done
    /\ call.op = "delete"
    /\ response = Response(FALSE, 404, "text", EnvNotFoundText)
    /\ failed = <<EnvNotFound>>

\* C4: a 2xx response whose body is the well-formed envelope E yields the success
\* value E, with the status, statusCode, message and data of the body, and
\* errorHandler does not run.
C4_SuccessEnvelopeUnchanged ==
    \A e \in Envelopes :
        (Done /\ response.ok /\ response.kind = "text" /\ response.text = EnvelopeText(e))
            => (emitted = <<e>> /\ failed = <<>> /\ completed /\ ~caught)
C4_Witness ==
    /\ Done
    /\ call.op = "post"
    /\ response = Response(TRUE, 200, "text", EnvOkText)
    /\ emitted = <<JSendReply("{\"id\":1}", "\"ok\"", "\"success\"", "200")>>

\* Whether a bag holds, at any depth, an object that encloses itself.
RECURSIVE HoldsCycle(_)
HoldsCycle(v) ==
    \/ v.t = "cycle"
    \/ v.t = "obj" /\ \E i \in 1..Len(v.o) : HoldsCycle(v.o[i].val)

NothingBeforeSubscription ==
    phase \in {"returned", "threw"} => (requests = <<>> /\ emitted = <<>> /\ failed = <<>>)
AtMostOneOutcome ==
    /\ Len(requests) <= 1
    /\ Len(emitted) + Len(failed) <= 1
    /\ completed => failed = <<>>
    /\ phase # "done" => (emitted = <<>> /\ failed = <<>> /\ ~completed)

\* C5 (as claimed): no operation issues a request or raises a failure when it is
\* called, and a subscribed result produces at most one success or one failure.
C5_LazyNeverThrows ==
    /\ NothingBeforeSubscription
    /\ phase # "threw"
    /\ AtMostOneOutcome

\* C5 (amended): no operation issues a request before its result is subscribed; the
\* one failure raised at call time is that of get, getExternal and delete flattening
\* a bag that encloses itself; a subscribed result produces at most one success or
\* one failure.
C5_LazySingleOutcome ==
    /\ NothingBeforeSubscription
    /\ phase = "threw" =>
           (call.op \in {"get", "getExternal", "delete"} /\ HoldsCycle(call.queryParams))
    /\ (phase \in {"returned", "subscribed", "done"}) => ~HoldsCycle(call.queryParams)
    /\ AtMostOneOutcome
C5_Witness ==
    /\ Done
    /\ call.op = "getExternal"
    /\ requests = <<pending>>
    /\ Len(emitted) = 1
    /\ failed = <<>>

Flattened == fpc = "done" /\ obj.t = "obj" /\ ~result.thrown
Pairs == QueryPairs(result.map)
\* The values of the pairs keyed k, in order.
ValuesKeyed(pairs, k) ==
    LET keyed == SelectSeq(pairs, LAMBDA p : p[1] = k)
    IN  [i \in 1..Len(keyed) |-> keyed[i][2]]
\* small occurs in big as a run of consecutive elements.
ContainsRun(big, small) ==
    \E off \in 0..(Len(big) - Len(small)) :
        \A j \in 1..Len(small) : big[off + j] = small[j]
\* The string form a scalar or a date is sent in.
SentAs(v) ==
    CASE v.t = "num" /\ v.n = 1 -> "1"
      [] v.t = "num" /\ v.n = 2 -> "2"
      [] v.t = "str" -> "a%20b"
      [] v.t = "date" -> "Mon%20Nov%2002%202026"
SentAll(a) == [j \in 1..Len(a) |-> SentAs(a[j])]

\* C7: a bag of scalar values is encoded as exactly one pair per key, the value of
\* each being the string form of the bag's value.
C7_ScalarsOnePairPerKey ==
    (fpc = "done" /\ obj.t = "obj" /\ \A i \in 1..Len(obj.o) : obj.o[i].val.t \in {"num", "str"})
        => /\ ~result.thrown
           /\ Len(Pairs) = Len(obj.o)
           /\ \A i \in 1..Len(obj.o) :
                  ValuesKeyed(Pairs, obj.o[i].key) = <<SentAs(obj.o[i].val)>>
C7_Witness ==
    /\ fpc = "done"
    /\ obj = Obj(<<Prop("k", Num(1)), Prop("x", Str(<<"a", " ", "b">>))>>)
    /\ Pairs = << <<"k", "1">>, <<"x", "a%20b">> >>

\* C8: an array under key k is encoded as one pair per element, all keyed k, in the
\* array's order; an empty array adds no pair.
C8_ArrayInOrder ==
    Flattened =>
        \A i \in 1..Len(obj.o) :
            obj.o[i].val.t = "arr" =>
                LET vals == ValuesKeyed(Pairs, obj.o[i].key)
                    elems == SentAll(obj.o[i].val.a)
                IN  /\ ContainsRun(vals, elems)
                    /\ (\A j \in 1..Len(obj.o) : obj.o[j].val.t # "obj") => vals = elems
C8_Witness ==
    /\ fpc = "done"
    /\ obj = Obj(<<Prop("x", Arr(<<>>)), Prop("k", Arr(<<Str(<<"a", " ", "b">>), Num(1)>>))>>)
    /\ Pairs = << <<"k", "a%20b">>, <<"k", "1">> >>

\* The keys that hold, at any depth, a value that is sent: a scalar, a date, an
\* array with elements.
RECURSIVE SentKeys(_)
SentKeys(props) ==
    UNION { IF props[i].val.t \in {"num", "str", "date"} THEN {props[i].key}
            ELSE IF props[i].val.t = "arr" /\ props[i].val.a # <<>> THEN {props[i].key}
            ELSE IF props[i].val.t = "obj" THEN SentKeys(props[i].val.o)
            ELSE {}
            : i \in 1..Len(props) }

\* The keys a scalar or date property visited after property i sets.
LaterSetKeys(props, i) ==
    {props[j].key : j \in {m \in (i + 1)..Len(props) : props[m].val.t \in {"num", "str", "date"}}}

\* Every nested object of a bag, at any depth, with the keys set after it in the
\* objects that enclose it.
RECURSIVE NestedObjects(_, _)
NestedObjects(props, replaced) ==
    UNION { IF props[i].val.t # "obj" THEN {}
            ELSE LET r == replaced \cup LaterSetKeys(props, i)
                 IN  {<<props[i].val, r>>} \cup NestedObjects(props[i].val.o, r)
            : i \in 1..Len(props) }

KeysOfPairs(pairs) == {pairs[i][1] : i \in 1..Len(pairs)}
NoNamespacedKeys == KeysOfPairs(Pairs) \subseteq SentKeys(obj.o)
NoPairsWithoutBag == (fpc = "done" /\ obj.t \in {"null", "undefined"}) => result = Returned(<<>>)

\* C9 (as claimed): the encoding of a bag contains the pairs of the flattening of
\* every nested object, under their own keys, and no pair keyed by the parent key.
C9_NestedPairsAlwaysKept ==
    /\ NoPairsWithoutBag
    /\ Flattened =>
        /\ NoNamespacedKeys
        /\ \A n \in NestedObjects(obj.o, {}) :
               LET inner == QueryPairs(transformParameters(n[1]).map)
               IN  \A q \in KeysOfPairs(inner) :
                       ContainsRun(ValuesKeyed(Pairs, q), ValuesKeyed(inner, q))

\* C9 (amended): the encoding of a bag contains the pairs of the flattening of every
\* nested object, under their own keys, but for the keys that a scalar or date
\* property visited later in an enclosing object sets; it has no pair keyed by the
\* parent key; a null or undefined bag and an empty or null nested object add no pair.
C9_NestedPairsFlattened ==
    /\ NoPairsWithoutBag
    /\ Flattened =>
        /\ NoNamespacedKeys
        /\ \A n \in NestedObjects(obj.o, {}) :
               LET inner == QueryPairs(transformParameters(n[1]).map)
               IN  \A q \in KeysOfPairs(inner) \ n[2] :
                       ContainsRun(ValuesKeyed(Pairs, q), ValuesKeyed(inner, q))
C9_Witness ==
    /\ fpc = "done"
    /\ obj = Obj(<<Prop("x", Obj(<<Prop("x", Obj(<<Prop("k", Num(1))>>))>>))>>)
    /\ Pairs = << <<"k", "1">> >>

\* C10: pairs coming from a nested object or an array are added after the pairs
\* already recorded for their key, and a scalar or date visited later replaces all
\* pairs recorded for its key by one; {k: 1, x: {k: 2}} gives two pairs for k,
\* {x: {k: 2}, k: 1} one.
C10_AccumulateOrReplace ==
    /\ (fpc = "done" /\ obj = Obj(<<Prop("k", Num(1)), Prop("x", Obj(<<Prop("k", Num(2))>>))>>))
           => Pairs = << <<"k", "1">>, <<"k", "2">> >>
    /\ (fpc = "done" /\ obj = Obj(<<Prop("x", Obj(<<Prop("k", Num(2))>>)), Prop("k", Num(1))>>))
           => Pairs = << <<"k", "1">> >>
    /\ (Flattened /\ obj.o # <<>>) =>
           LET n == Len(obj.o)
               last == obj.o[n]
               before == QueryPairs(transformParameters(Obj(SubSeq(obj.o, 1, n - 1))).map)
               added(q) ==
                   CASE last.val.t = "arr" ->
                          IF q = last.key THEN SentAll(last.val.a) ELSE <<>>
                     [] last.val.t = "obj" ->
                          ValuesKeyed(QueryPairs(transformParameters(last.val).map), q)
                     [] OTHER -> <<>>
           IN  \A q \in Keys :
                   IF last.val.t \in {"num", "str", "date"} /\ q = last.key
                   THEN ValuesKeyed(Pairs, q) = <<SentAs(last.val)>>
                   ELSE ValuesKeyed(Pairs, q) = ValuesKeyed(before, q) \o added(q)
C10_Witness ==
    /\ fpc = "done"
    /\ obj = Obj(<<Prop("x", Obj(<<Prop("k", Num(2))>>)), Prop("k", Num(1))>>)
    /\ Pairs = << <<"k", "1">> >>

====
